---------------------------- MODULE Spec2Model ----------------------------
(***************************************************************************)
(* Model of the TVL fetcher of src/main.py (class TVLFetcher).             *)
(*                                                                         *)
(* Amounts are integers in thousandths of a dollar (mills): 1004 is 1.004. *)
(* An optional value (Python None or a number) is a sequence of length 0   *)
(* or 1.  Waits are in tenths of a second.                                 *)
(***************************************************************************)
EXTENDS Integers, Sequences, FiniteSets, TLC

VARIABLES
    last_successful_tvl,   \* self.last_successful_tvl : None or a number
    consecutive_failures,  \* self.consecutive_failures
    manual_tvl,            \* self.manual_tvl : None or a number
    source_success_count,  \* self.source_success_count : dict name -> count
    result,                \* outcome of the get_tvl call just made
    fetched,               \* per source: what its fetch did in that call
    degraded,              \* the logger.error health report was emitted
    failed_cycles,         \* all-failed cycles since the last success
    pc,                    \* 0: no call in progress; i: get_tvl is about
                           \* to fetch source i of its list
    validated,             \* the validate_tvl call just made, if any
    prev,                  \* the get_tvl call completed last, where the
                           \* history of calls is recorded
    outflow                \* what calculate_fund_outflow did, where the
                           \* calls are made by that consumer

vars == <<last_successful_tvl, consecutive_failures, manual_tvl,
          source_success_count, result, fetched, degraded, failed_cycles,
          pc, validated, prev, outflow>>

----------------------------------------------------------------------------
(* Program constants                                                       *)

MaxRetries == 3
BaseBackoff == 1
MaxConsecutiveFailures == 5
MaxChangePct == 90

Sources == <<"DexScreener", "DeFiLlama">>
SourceNames == {Sources[i] : i \in 1..Len(Sources)}

(* Bounds of the exploration                                               *)

MaxFailures == 6
MaxCount == 2

\* Numbers a provider may put in the field that is read (mills).
RawVals == {0 - 1000, 0, 4, 1004, 1900, 1910, 19000}
\* Numbers the operator may set as the override (mills), none negative.
ManualVals == {0, 5000}
\* Arguments validate_tvl is called with, and the last successful values
\* it is called against (mills).
ValidateArgs == {0 - 1000, 0 - 10, 0, 10, 90, 100, 110, 990, 1000, 1010, 1890,
                 1900, 1910, 10000, 18990, 19000, 19010, 36100, 36110}
ValidateLasts == {10, 1000, 1900, 10000, 19000}

----------------------------------------------------------------------------
(* Optional values                                                         *)

None == << >>
Some(v) == <<v>>
IsSet(o) == o # None
Val(o) == o[1]

Abs(x) == IF x < 0 THEN 0 - x ELSE x

RECURSIVE Pow2(_)
Pow2(n) == IF n = 0 THEN 1 ELSE 2 * Pow2(n - 1)

----------------------------------------------------------------------------
(* The HTTP call and the JSON body it yields                               *)
(*                                                                         *)
(* A body is described by its shape relative to the field the fetcher      *)
(* reads ("pair" -> "liquidity" -> "usd" for DexScreener, "tvl" for        *)
(* DeFiLlama):                                                             *)
(*   falsy        null, {}, [], 0, "" or false                             *)
(*   scalar       a non-zero number or true                                *)
(*   array        a non-empty list or string without the element "pair"    *)
(*   no_field     an object without the top-level key                      *)
(*   null_field   an object whose top-level key is null or not an object   *)
(*   non_numeric  the number is missing, null or not a number              *)
(*   num          the number is present: num                               *)
(***************************************************************************)

Shapes == {"falsy", "scalar", "array", "no_field", "null_field", "non_numeric"}

Bodies == [shape : Shapes, num : {0}] \cup [shape : {"num"}, num : RawVals]

\* What _retry_with_backoff returns when every attempt raised.
NoData == [shape |-> "None", num |-> 0]

\* A plan is what the provider does during one fetch: the first `fails`
\* calls raise (connection error, timeout, non-2xx status, malformed JSON),
\* the next one answers `body`.
Plans == [fails : 0..(MaxRetries - 1), body : Bodies]
             \cup [fails : {MaxRetries}, body : {NoData}]

\* _api_call: requests.get, raise_for_status, resp.json.
ApiCallRaises(plan, attempt) == attempt < plan.fails

\* wait_time = base_backoff * 2**attempt + attempt * 0.1, in tenths.
WaitTime(attempt) == BaseBackoff * Pow2(attempt) * 10 + attempt

\* Variant: the loop runs one time too many (range(max_retries + 1)).
RECURSIVE RetryLoop_OffByOne(_, _, _)
RetryLoop_OffByOne(plan, attempt, waits) ==
    IF attempt > MaxRetries
    THEN [attempts |-> attempt, waits |-> waits, data |-> NoData]
    ELSE IF ApiCallRaises(plan, attempt)
         THEN RetryLoop_OffByOne(plan, attempt + 1,
                                 Append(waits, WaitTime(attempt)))
         ELSE [attempts |-> attempt + 1, waits |-> waits, data |-> plan.body]

\* for attempt in range(max_retries): try return func() except: sleep(...)
RECURSIVE RetryLoop(_, _, _)
RetryLoop(plan, attempt, waits) ==
    IF attempt >= MaxRetries
    THEN [attempts |-> attempt, waits |-> waits, data |-> NoData]
    ELSE IF ApiCallRaises(plan, attempt)
         THEN RetryLoop(plan, attempt + 1, Append(waits, WaitTime(attempt)))
         ELSE [attempts |-> attempt + 1, waits |-> waits, data |-> plan.body]

RetryWithBackoff(plan) == RetryLoop(plan, 0, << >>)

\* Python truthiness of `data`.
Truthy(data) == data.shape \notin {"None", "falsy"}

\* round(tvl, 2) of a non-negative amount: to the nearest cent.
Round2(num) == 10 * ((num + 5) \div 10)

\* tvl is not None and isinstance(tvl, (int, float)) and tvl >= 0
NumericOk(data) == data.shape = "num" /\ data.num >= 0

\* The extraction of _fetch_from_dexscreener after the retry returned:
\* "raise" where an exception leaves the method, "none" where it returns
\* None, "value" where it returns round(tvl, 2).
DexExtract(data) ==
    IF ~Truthy(data) THEN [out |-> "none", cand |-> 0]
    ELSE IF data.shape = "scalar" THEN [out |-> "raise", cand |-> 0]
    ELSE IF data.shape \in {"array", "no_field"} THEN [out |-> "none", cand |-> 0]
    ELSE IF data.shape = "null_field" THEN [out |-> "raise", cand |-> 0]
    ELSE IF NumericOk(data) THEN [out |-> "value", cand |-> Round2(data.num)]
    ELSE [out |-> "none", cand |-> 0]

\* The extraction of _fetch_from_defillama after the retry returned.
LlamaExtract(data) ==
    IF ~Truthy(data) THEN [out |-> "none", cand |-> 0]
    ELSE IF data.shape \in {"scalar", "array"} THEN [out |-> "raise", cand |-> 0]
    ELSE IF NumericOk(data) THEN [out |-> "value", cand |-> Round2(data.num)]
    ELSE [out |-> "none", cand |-> 0]

Extract(name, data) ==
    IF name = "DexScreener" THEN DexExtract(data) ELSE LlamaExtract(data)

\* fetch_func(): one source's fetch, with what it did.
Fetch(name, plan) ==
    LET r == RetryWithBackoff(plan)
        e == Extract(name, r.data)
    IN  [invoked |-> TRUE, attempts |-> r.attempts, waits |-> r.waits,
         body |-> r.data.shape, out |-> e.out, cand |-> e.cand]

NotInvoked == [invoked |-> FALSE, attempts |-> 0, waits |-> << >>,
               body |-> "None", out |-> "none", cand |-> 0]

----------------------------------------------------------------------------
(* validate_tvl and the acceptance test of get_tvl                         *)

\* Variant: the boundary itself is rejected (>= 90).
ChangeTooLarge_Inclusive(tvl, last) ==
    Abs(tvl - last) * 100 >= MaxChangePct * last

\* Variant: only a drop is suspicious (no abs).
ChangeTooLarge_DropsOnly(tvl, last) ==
    (last - tvl) * 100 > MaxChangePct * last

\* abs((tvl - last) / last * 100) > 90, without the division.
ChangeTooLarge(tvl, last) == Abs(tvl - last) * 100 > MaxChangePct * last

ValidateTvl(tvl, lastOpt) ==
    IF tvl < 0 THEN FALSE
    ELSE IF IsSet(lastOpt) /\ ChangeTooLarge(tvl, Val(lastOpt)) THEN FALSE
    ELSE TRUE

\* Variant: the candidate is not validated.
Accepted_NoValidate(f, lastOpt) == f.out = "value" /\ f.cand > 0

\* Variant: a candidate equal to the last successful value is not accepted.
Accepted_OnlyChanged(f, lastOpt) ==
    /\ f.out = "value"
    /\ f.cand > 0
    /\ ValidateTvl(f.cand, lastOpt)
    /\ lastOpt # Some(f.cand)

\* Variant: a candidate of 0 is accepted (tvl >= 0).
Accepted_AllowZero(f, lastOpt) == f.out = "value" /\ ValidateTvl(f.cand, lastOpt)

\* tvl is not None and tvl > 0 and self.validate_tvl(tvl)
Accepted(f, lastOpt) ==
    f.out = "value" /\ f.cand > 0 /\ ValidateTvl(f.cand, lastOpt)

----------------------------------------------------------------------------
(* get_tvl                                                                 *)

Count(ssc, name) == IF name \in DOMAIN ssc THEN ssc[name] ELSE 0

\* Variant: the count is set to 1 instead of incremented.
RecordSuccess_SetToOne(ssc, name) ==
    [n \in (DOMAIN ssc) \cup {name} |-> IF n = name THEN 1 ELSE ssc[n]]

\* if source_name not in d: d[source_name] = 0 ; d[source_name] += 1
RecordSuccess(ssc, name) ==
    [n \in (DOMAIN ssc) \cup {name} |->
        IF n = name THEN Count(ssc, name) + 1 ELSE ssc[n]]

NoneFetched == [n \in SourceNames |-> NotInvoked]

Idle == [kind |-> "idle", value |-> 0, source |-> "-"]
Returned(v, tag) == [kind |-> "return", value |-> v, source |-> tag]
Raised == [kind |-> "raise", value |-> 0, source |-> "-"]

OverrideTag == "ManualOverride"
LastValueTag == "LastSuccessfulValue"
DefaultTag == "Default"
DefaultTvl == 0

\* Variant: a truthiness test (if self.manual_tvl), which takes 0 for unset.
OverrideActive_Truthy(manualOpt) == IsSet(manualOpt) /\ Val(manualOpt) # 0

\* if self.manual_tvl is not None
OverrideActive(manualOpt) == IsSet(manualOpt)

\* Variant: the override is recorded as the last successful value.
GetTvlOverride_RecordsValue ==
    /\ result' = Returned(Val(manual_tvl), OverrideTag)
    /\ last_successful_tvl' = manual_tvl
    /\ fetched' = NoneFetched
    /\ degraded' = FALSE
    /\ pc' = 0
    /\ UNCHANGED <<consecutive_failures, manual_tvl,
                   source_success_count, failed_cycles, validated>>

\* return self.manual_tvl, "ManualOverride"
GetTvlOverride ==
    /\ result' = Returned(Val(manual_tvl), OverrideTag)
    /\ fetched' = NoneFetched
    /\ degraded' = FALSE
    /\ pc' = 0
    /\ UNCHANGED <<last_successful_tvl, consecutive_failures, manual_tvl,
                   source_success_count, failed_cycles, validated>>

\* Variant: the loop starts at the second source of the list.
GetTvlEnterLoop_SkipsPrimary ==
    /\ consecutive_failures < MaxFailures
    /\ \A n \in SourceNames : Count(source_success_count, n) < MaxCount
    /\ result' = Idle
    /\ fetched' = NoneFetched
    /\ degraded' = FALSE
    /\ pc' = 2
    /\ UNCHANGED <<last_successful_tvl, consecutive_failures, manual_tvl,
                   source_success_count, failed_cycles, validated>>

\* The call enters the for loop over `sources`.
GetTvlEnterLoop ==
    /\ consecutive_failures < MaxFailures
    /\ \A n \in SourceNames : Count(source_success_count, n) < MaxCount
    /\ result' = Idle
    /\ fetched' = NoneFetched
    /\ degraded' = FALSE
    /\ pc' = 1
    /\ UNCHANGED <<last_successful_tvl, consecutive_failures, manual_tvl,
                   source_success_count, failed_cycles, validated>>

\* get_tvl is called.
GetTvl ==
    /\ pc = 0
    /\ IF OverrideActive(manual_tvl) THEN GetTvlOverride ELSE GetTvlEnterLoop

\* A fetch raised: the exception leaves get_tvl, nothing was assigned.
GetTvlRaise ==
    /\ result' = Raised
    /\ degraded' = FALSE
    /\ pc' = 0
    /\ UNCHANGED <<last_successful_tvl, consecutive_failures, manual_tvl,
                   source_success_count, failed_cycles, validated>>

\* Variant: the failure count is not reset on success.
GetTvlSuccess_NoReset(name, tvl) ==
    /\ consecutive_failures' = consecutive_failures
    /\ source_success_count' = RecordSuccess(source_success_count, name)
    /\ last_successful_tvl' = Some(tvl)
    /\ result' = Returned(tvl, name)
    /\ degraded' = FALSE
    /\ failed_cycles' = 0
    /\ pc' = 0
    /\ UNCHANGED <<manual_tvl, validated>>

\* The body of `if tvl is not None and tvl > 0 and self.validate_tvl(tvl)`.
GetTvlSuccess(name, tvl) ==
    /\ consecutive_failures' = 0
    /\ source_success_count' = RecordSuccess(source_success_count, name)
    /\ last_successful_tvl' = Some(tvl)
    /\ result' = Returned(tvl, name)
    /\ degraded' = FALSE
    /\ failed_cycles' = 0
    /\ pc' = 0
    /\ UNCHANGED <<manual_tvl, validated>>

\* Variant: every source that fails counts as a failure.
GetTvlNextSource_CountsFailure ==
    /\ pc' = pc + 1
    /\ consecutive_failures' = consecutive_failures + 1
    /\ UNCHANGED <<last_successful_tvl, manual_tvl, source_success_count,
                   failed_cycles, result, degraded, validated>>

\* The loop goes on to the next source.
GetTvlNextSource ==
    /\ pc' = pc + 1
    /\ UNCHANGED <<last_successful_tvl, consecutive_failures, manual_tvl,
                   source_success_count, failed_cycles, result, degraded,
                   validated>>

\* Variant: the report is made once, when the ceiling is reached (==).
HealthReport_Once(failures) == failures = MaxConsecutiveFailures

\* if self.consecutive_failures >= self.max_consecutive_failures: log error
HealthReport(failures) == failures >= MaxConsecutiveFailures

\* Variant: -1 is the reading when there is nothing to fall back on.
Fallback_NegativeSentinel(lastOpt) ==
    IF IsSet(lastOpt) THEN Returned(Val(lastOpt), LastValueTag)
    ELSE Returned(0 - 1, DefaultTag)

\* Variant: the last successful value is not used.
Fallback_AlwaysDefault(lastOpt) == Returned(DefaultTvl, DefaultTag)

\* return self.last_successful_tvl, "LastSuccessfulValue" / return 0.0, "Default"
Fallback(lastOpt) ==
    IF IsSet(lastOpt) THEN Returned(Val(lastOpt), LastValueTag)
    ELSE Returned(DefaultTvl, DefaultTag)

\* After the loop: if all_failed: ... ; then the fallback chain.
GetTvlAllFailed ==
    /\ consecutive_failures' = consecutive_failures + 1
    /\ degraded' = HealthReport(consecutive_failures + 1)
    /\ result' = Fallback(last_successful_tvl)
    /\ failed_cycles' = failed_cycles + 1
    /\ pc' = 0
    /\ UNCHANGED <<last_successful_tvl, manual_tvl, source_success_count,
                   validated>>

\* Variant: a candidate that is not accepted ends the loop (break).
TrySource_AbortOnInvalid ==
    /\ pc \in 1..Len(Sources)
    /\ \E plan \in Plans :
         LET name == Sources[pc]
             f == Fetch(name, plan)
         IN  /\ fetched' = [fetched EXCEPT ![name] = f]
             /\ IF f.out = "raise" THEN GetTvlRaise
                ELSE IF Accepted(f, last_successful_tvl)
                     THEN GetTvlSuccess(name, f.cand)
                ELSE IF pc < Len(Sources) /\ f.out # "value"
                     THEN GetTvlNextSource
                ELSE GetTvlAllFailed

\* One iteration of the for loop: tvl = fetch_func(), the test of tvl, and,
\* when the loop ends here, everything get_tvl does until it returns.
TrySource ==
    /\ pc \in 1..Len(Sources)
    /\ \E plan \in Plans :
         LET name == Sources[pc]
             f == Fetch(name, plan)
         IN  /\ fetched' = [fetched EXCEPT ![name] = f]
             /\ IF f.out = "raise" THEN GetTvlRaise
                ELSE IF Accepted(f, last_successful_tvl)
                     THEN GetTvlSuccess(name, f.cand)
                ELSE IF pc < Len(Sources) THEN GetTvlNextSource
                ELSE GetTvlAllFailed

NotValidated == [called |-> FALSE, tvl |-> 0, ok |-> FALSE]

\* validate_tvl(tvl) is called; it reads last_successful_tvl and assigns
\* nothing.
ValidateTvlCall ==
    /\ pc = 0
    /\ \E tvl \in ValidateArgs :
         validated' = [called |-> TRUE, tvl |-> tvl,
                       ok |-> ValidateTvl(tvl, last_successful_tvl)]
    /\ UNCHANGED <<last_successful_tvl, consecutive_failures, manual_tvl,
                   source_success_count, result, fetched, degraded,
                   failed_cycles, pc>>

\* The operator sets self.manual_tvl to a non-negative number (the class has
\* no setter method: the attribute is assigned).
SetManualTvl ==
    /\ pc = 0
    /\ \E v \in ManualVals : manual_tvl' = Some(v)
    /\ result' = Idle
    /\ fetched' = NoneFetched
    /\ degraded' = FALSE
    /\ UNCHANGED <<last_successful_tvl, consecutive_failures,
                   source_success_count, failed_cycles, pc, validated>>

\* The operator clears the override: self.manual_tvl = None.
ClearManualTvl ==
    /\ pc = 0
    /\ IsSet(manual_tvl)
    /\ manual_tvl' = None
    /\ result' = Idle
    /\ fetched' = NoneFetched
    /\ degraded' = FALSE
    /\ UNCHANGED <<last_successful_tvl, consecutive_failures,
                   source_success_count, failed_cycles, pc, validated>>

----------------------------------------------------------------------------
(* The history of calls                                                    *)

NoCall == [tag |-> "-", healthy |-> FALSE]

\* The first source of the list answered on its first attempt with a
\* non-negative number, and validate_tvl does not reject that number.
HealthyPrimary(f, lastOpt) ==
    /\ f.invoked
    /\ f.attempts = 1
    /\ f.out = "value"
    /\ ValidateTvl(f.cand, lastOpt)

\* What the call that ends in this step did: the tag it returned ("raise"
\* where it raised) and whether its first source was healthy.
CallSummary ==
    [tag |-> IF result'.kind = "return" THEN result'.source ELSE "raise",
     healthy |-> HealthyPrimary(fetched'[Sources[1]], last_successful_tvl)]

\* prev is replaced when a get_tvl call ends.
RecordCall ==
    prev' = IF pc' = 0 /\ result'.kind # "idle" THEN CallSummary ELSE prev

----------------------------------------------------------------------------
(* The consumer: calculate_fund_outflow                                    *)

\* FUND_OUTFLOW_THRESHOLD * 100, in percent
FundOutflowThreshold == 30

\* outflow_usd - inflow_usd of the last hour, in mills
NetOutflows == {0 - 1000, 300, 1500}

\* n / d rounded to the nearest integer (d > 0)
RoundDiv(n, d) ==
    LET q == (2 * Abs(n) + d) \div (2 * d)
    IN  IF n < 0 THEN 0 - q ELSE q

NotCalled == [kind |-> "none", tvl |-> 0, rate |-> 0, alert |-> FALSE,
              ratio |-> FALSE]
Calling == [kind |-> "calling", tvl |-> 0, rate |-> 0, alert |-> FALSE,
            ratio |-> FALSE]
OutflowRaised == [kind |-> "raise", tvl |-> 0, rate |-> 0, alert |-> FALSE,
                  ratio |-> FALSE]

\* Variant: no early return on a reading <= 0; the ratio line is reached.
OutflowReport_NoEarlyReturn(tvl, net) ==
    [kind |-> "report", tvl |-> tvl,
     rate |-> IF tvl # 0 THEN RoundDiv(net * 10000, tvl) ELSE 0,
     alert |-> tvl # 0 /\ net * 100 > FundOutflowThreshold * tvl,
     ratio |-> TRUE]

\* calculate_fund_outflow after fetch_contract_tvl returned tvl: the pair
\* (rate, alert) it returns, rate in hundredths of a percent; ratio tells
\* whether the ratio line (net_outflow / tvl) * 100 was reached.
OutflowReport(tvl, net) ==
    IF tvl <= 0
    THEN [kind |-> "report", tvl |-> tvl, rate |-> 0, alert |-> FALSE,
          ratio |-> FALSE]
    ELSE [kind |-> "report", tvl |-> tvl,
          rate |-> IF tvl # 0 THEN RoundDiv(net * 10000, tvl) ELSE 0,
          alert |-> net * 100 > FundOutflowThreshold * tvl,
          ratio |-> TRUE]

\* fetch_contract_tvl: a step of the get_tvl call it makes on the shared
\* fetcher; it returns the value and drops the tag.
FetchContractTvl == GetTvl \/ TrySource

\* calculate_fund_outflow: it calls fetch_contract_tvl and, once that has
\* returned, computes its report; an exception of get_tvl passes through.
CalculateFundOutflow ==
    /\ FetchContractTvl
    /\ \E net \in NetOutflows :
         outflow' = IF pc' # 0 THEN Calling
                    ELSE IF result'.kind = "raise" THEN OutflowRaised
                    ELSE OutflowReport(result'.value, net)

\* TVLFetcher.__init__
Init ==
    /\ last_successful_tvl = None
    /\ consecutive_failures = 0
    /\ manual_tvl = None
    /\ source_success_count = << >>
    /\ result = Idle
    /\ fetched = NoneFetched
    /\ degraded = FALSE
    /\ failed_cycles = 0
    /\ pc = 0
    /\ validated = NotValidated
    /\ prev = NoCall
    /\ outflow = NotCalled

\* The fetcher: get_tvl called directly, and the operator's assignments.
Next ==
    \/ GetTvl /\ UNCHANGED <<prev, outflow>>
    \/ TrySource /\ UNCHANGED <<prev, outflow>>
    \/ SetManualTvl /\ UNCHANGED <<prev, outflow>>
    \/ ClearManualTvl /\ UNCHANGED <<prev, outflow>>

Spec == Init /\ [][Next]_vars

\* The fetcher with the history of its calls recorded.
NextHistory ==
    \/ GetTvl /\ RecordCall /\ UNCHANGED outflow
    \/ TrySource /\ RecordCall /\ UNCHANGED outflow
    \/ SetManualTvl /\ RecordCall /\ UNCHANGED outflow
    \/ ClearManualTvl /\ RecordCall /\ UNCHANGED outflow

SpecHistory == Init /\ [][NextHistory]_vars

\* The fetcher with every get_tvl call made by calculate_fund_outflow.
NextConsumer ==
    \/ CalculateFundOutflow /\ UNCHANGED prev
    \/ SetManualTvl /\ UNCHANGED <<prev, outflow>>
    \/ ClearManualTvl /\ UNCHANGED <<prev, outflow>>

SpecConsumer == Init /\ [][NextConsumer]_vars

\* validate_tvl on its own: a fetcher with any last successful value the
\* fetcher can hold (none, or a positive amount), called with any argument.
InitValidate ==
    /\ last_successful_tvl \in {None} \cup {Some(v) : v \in ValidateLasts}
    /\ consecutive_failures = 0
    /\ manual_tvl = None
    /\ source_success_count = << >>
    /\ result = Idle
    /\ fetched = NoneFetched
    /\ degraded = FALSE
    /\ failed_cycles = 0
    /\ pc = 0
    /\ validated = NotValidated
    /\ prev = NoCall
    /\ outflow = NotCalled

NextValidate == ValidateTvlCall /\ UNCHANGED <<prev, outflow>>

SpecValidate == InitValidate /\ [][NextValidate]_vars

TypeOK ==
    /\ IsSet(last_successful_tvl) => Val(last_successful_tvl) \in Nat
    /\ consecutive_failures \in 0..MaxFailures
    /\ manual_tvl \in {None} \cup {Some(v) : v \in ManualVals}
    /\ DOMAIN source_success_count \subseteq SourceNames
    /\ result.kind \in {"idle", "return", "raise"}
    /\ pc \in 0..Len(Sources)

----------------------------------------------------------------------------
(* Properties                                                              *)

Dex == "DexScreener"
Llama == "DeFiLlama"

ReadingTags == {OverrideTag, Dex, Llama, LastValueTag, DefaultTag}

\* The step is a call of get_tvl (not an operator action, not a later
\* iteration of a call in progress).
CallStep == pc = 0 /\ ~(pc' = 0 /\ result' = Idle) /\ validated' = validated

\* The step is the iteration of the for loop on source n.
FetchStep(n) == pc \in 1..Len(Sources) /\ Sources[pc] = n

\* The fetch of source n yielded a candidate.
Candidate(f) == f.invoked /\ f.out = "value"

\* The step records a success of source n with reading v.
SuccessRecorded(n, v) ==
    /\ pc' = 0
    /\ result' = Returned(v, n)
    /\ Count(source_success_count', n) = Count(source_success_count, n) + 1
    /\ \A m \in SourceNames \ {n} :
          Count(source_success_count', m) = Count(source_success_count, m)
    /\ consecutive_failures' = 0
    /\ last_successful_tvl' = Some(v)

\* C1: get_tvl never propagates an exception: whatever the sources answer,
\* the call returns a (value, source) pair.
C1_NeverRaises == result.kind # "raise"

\* C2: every reading get_tvl returns has a value >= 0 and a source tag among
\* ManualOverride, DexScreener, DeFiLlama, LastSuccessfulValue, Default.
C2_ReadingWellFormed ==
    result.kind = "return" => result.value >= 0 /\ result.source \in ReadingTags

C2_Witness ==
    /\ pc = 0
    /\ result.kind = "return"
    /\ result.source = LastValueTag
    /\ result.value > 0
    /\ consecutive_failures >= 2

\* C3: while the override is set to V, every get_tvl call returns
\* (V, ManualOverride), invokes no source fetch and leaves the override set;
\* no fetch is in progress while the override is set.
C3_OverrideWins ==
    [][ /\ (IsSet(manual_tvl') => pc' = 0)
        /\ (CallStep /\ IsSet(manual_tvl) =>
              /\ result' = Returned(Val(manual_tvl), OverrideTag)
              /\ \A n \in SourceNames : ~fetched'[n].invoked
              /\ pc' = 0
              /\ manual_tvl' = manual_tvl) ]_vars

C3_Witness ==
    /\ pc = 0
    /\ manual_tvl = Some(0)
    /\ result = Returned(0, OverrideTag)
    /\ IsSet(last_successful_tvl)
    /\ consecutive_failures > 0
    /\ \A n \in SourceNames : ~fetched[n].invoked

\* C4 (as claimed): with the override unset, if DexScreener, the first source,
\* yields on its first attempt a value V that validate_tvl accepts, get_tvl
\* returns (V, DexScreener) without invoking DeFiLlama, DexScreener's success
\* count grows by exactly 1 and no other count changes.
C4_Original ==
    [][ /\ (pc = 1 => fetched'[Dex].invoked)
        /\ (/\ FetchStep(Dex)
            /\ Candidate(fetched'[Dex])
            /\ fetched'[Dex].attempts = 1
            /\ ValidateTvl(fetched'[Dex].cand, last_successful_tvl)
            => /\ SuccessRecorded(Dex, fetched'[Dex].cand)
               /\ ~fetched'[Llama].invoked) ]_vars

\* C4 (amended): the same for a value V > 0; a value of 0 is never returned
\* as a source reading.
C4_FirstSourceWins ==
    [][ /\ (pc = 1 => fetched'[Dex].invoked)
        /\ (/\ FetchStep(Dex)
            /\ Candidate(fetched'[Dex])
            /\ fetched'[Dex].attempts = 1
            /\ fetched'[Dex].cand > 0
            /\ ValidateTvl(fetched'[Dex].cand, last_successful_tvl)
            => /\ SuccessRecorded(Dex, fetched'[Dex].cand)
               /\ ~fetched'[Llama].invoked) ]_vars

C4_Witness ==
    /\ pc = 0
    /\ result.kind = "return"
    /\ result.source = Dex
    /\ fetched[Dex].attempts = 1
    /\ ~fetched[Llama].invoked
    /\ Count(source_success_count, Dex) = 2
    /\ Count(source_success_count, Llama) = 1

\* C5 (as claimed): with the override unset, whenever a source's fetch yields
\* a candidate that validate_tvl accepts in the current state (0 on a fresh
\* fetcher included), get_tvl returns it tagged with that source and records
\* the success; it does not go on to a later source or to the fallback.
C5_Original ==
    [][ \A n \in SourceNames :
          /\ FetchStep(n)
          /\ Candidate(fetched'[n])
          /\ ValidateTvl(fetched'[n].cand, last_successful_tvl)
          => SuccessRecorded(n, fetched'[n].cand) ]_vars

\* C5 (amended): the same for every candidate greater than 0; a candidate of
\* 0 is treated like a failed fetch.
C5_AcceptedIsReturned ==
    [][ \A n \in SourceNames :
          /\ FetchStep(n)
          /\ Candidate(fetched'[n])
          => IF /\ fetched'[n].cand > 0
                /\ ValidateTvl(fetched'[n].cand, last_successful_tvl)
             THEN SuccessRecorded(n, fetched'[n].cand)
             ELSE /\ result'.source # n
                  /\ UNCHANGED <<last_successful_tvl, source_success_count>> ]_vars

C5_Witness ==
    /\ pc = 0
    /\ result.kind = "return"
    /\ result.source = Llama
    /\ Candidate(fetched[Dex])
    /\ fetched[Dex].cand > 0
    /\ last_successful_tvl = Some(result.value)
    /\ consecutive_failures = 0

\* Every attempt of the fetch raised: the retry loop gave up.
Exhausted(f) == f.invoked /\ f.body = "None"

\* The fetch of the source failed (it returned None) or its candidate was
\* not accepted.
SourceFailed(f, lastOpt) ==
    /\ f.invoked
    /\ \/ f.out = "none"
       \/ f.out = "value" /\ ~(f.cand > 0 /\ ValidateTvl(f.cand, lastOpt))

\* The step ends a cycle in which every source failed or was rejected.
AllFailedStep ==
    /\ pc \in 1..Len(Sources)
    /\ \A n \in SourceNames : SourceFailed(fetched'[n], last_successful_tvl)

\* C6: with the override unset, a cycle in which every source fails all its
\* attempts or is rejected returns (L, LastSuccessfulValue) when a last
\* successful value L exists and (0.0, Default) otherwise; the failure count
\* grows by exactly 1; the last successful value and the success counts are
\* unchanged.
C6_FallbackChain ==
    [][ AllFailedStep =>
          /\ pc' = 0
          /\ result' = IF IsSet(last_successful_tvl)
                       THEN Returned(Val(last_successful_tvl), "LastSuccessfulValue")
                       ELSE Returned(0, "Default")
          /\ consecutive_failures' = consecutive_failures + 1
          /\ UNCHANGED <<last_successful_tvl, source_success_count>> ]_vars

C6_Witness ==
    /\ pc = 0
    /\ Exhausted(fetched[Dex])
    /\ fetched[Dex].attempts = MaxRetries
    /\ Candidate(fetched[Llama])
    /\ fetched[Llama].cand > 0
    /\ result = Returned(1000, LastValueTag)
    /\ last_successful_tvl = Some(1000)
    /\ consecutive_failures = 1

\* More than 90% away from last (> 0): below a tenth of it or above 1.9
\* times it.
MoreThan90PctAway(tvl, last) == 10 * tvl < last \/ 10 * tvl > 19 * last

C8_LastValueOnlyFromValidated ==
    [][ /\ (IsSet(last_successful_tvl) => IsSet(last_successful_tvl'))
        /\ (last_successful_tvl' # last_successful_tvl =>
              /\ pc # 0 /\ pc' = 0
              /\ result'.kind = "return"
              /\ result'.source \in SourceNames
              /\ Candidate(fetched'[result'.source])
              /\ fetched'[result'.source].cand = result'.value
              /\ last_successful_tvl' = Some(result'.value)
              /\ ValidateTvl(result'.value, last_successful_tvl)) ]_vars

C8_Witness ==
    /\ pc = 0
    /\ result.kind = "return"
    /\ result.source \in SourceNames
    /\ last_successful_tvl = Some(result.value)
    /\ result.value = 1900
    /\ Count(source_success_count, Dex) + Count(source_success_count, Llama) = 2

\* The step ends a cycle with a validated reading from a source.
SourceReadingStep ==
    pc # 0 /\ pc' = 0 /\ result'.kind = "return" /\ result'.source \in SourceNames

\* C9: consecutive_failures becomes 0 in every call that returns a validated
\* reading from a source, grows by exactly 1 in every call in which every
\* source failed or was rejected, and is unchanged by anything else; it
\* always equals the number of all-failed cycles since the last success.
C9_FailureCount ==
    /\ [][ consecutive_failures' =
             IF SourceReadingStep THEN 0
             ELSE IF AllFailedStep THEN consecutive_failures + 1
             ELSE consecutive_failures ]_vars
    /\ [](consecutive_failures = failed_cycles)

C9_Witness ==
    /\ pc = 0
    /\ consecutive_failures = 2
    /\ failed_cycles = 2
    /\ result.kind = "return"
    /\ result.source = LastValueTag
    /\ Count(source_success_count, Llama) = 1
    /\ Count(source_success_count, Dex) = 1

\* A response that parsed, in which the field read is missing or is not a
\* number.
FieldFailShapes == {"no_field", "non_numeric"}

\* The source failed at its first answer in a way that does not change.
PermanentFailure(f) ==
    \/ Exhausted(f)
    \/ f.invoked /\ Len(f.waits) = 0 /\ f.body \in FieldFailShapes

\* C10 (as claimed): a source that fails permanently (network or timeout
\* error, non-2xx status, malformed JSON, or a response with a missing or
\* non-numeric field) is fetched exactly max_retries times in a cycle.
C10_Original ==
    \A n \in SourceNames :
        PermanentFailure(fetched[n]) => fetched[n].attempts = MaxRetries

\* C10 (amended): a source whose HTTP call raises at every attempt is
\* fetched exactly max_retries times; a response that parses is never
\* retried, whatever its fields: the number of HTTP GETs is the number of
\* calls that raised plus one, at most max_retries.
C10_Attempts ==
    \A n \in SourceNames :
        LET f == fetched[n]
        IN  f.invoked =>
              /\ f.attempts \in 1..MaxRetries
              /\ Exhausted(f) <=> Len(f.waits) = MaxRetries
              /\ Exhausted(f) => f.attempts = MaxRetries
              /\ ~Exhausted(f) => f.attempts = Len(f.waits) + 1
              /\ f.body \in FieldFailShapes /\ Len(f.waits) = 0 => f.attempts = 1

C10_Witness ==
    /\ pc = 0
    /\ Exhausted(fetched[Dex])
    /\ fetched[Dex].attempts = MaxRetries
    /\ fetched[Llama].invoked
    /\ fetched[Llama].body = "non_numeric"
    /\ fetched[Llama].attempts = 1

\* C11: backoff waits occur only between consecutive attempts on one source:
\* a source that fails all its attempts causes exactly two waits, 1.0 s
\* before attempt 2 and 2.1 s before attempt 3, and none after the third.
C11_Original ==
    \A n \in SourceNames :
        LET f == fetched[n]
        IN  f.invoked =>
              /\ Len(f.waits) = f.attempts - 1
              /\ Exhausted(f) => f.waits = <<10, 21>>

\* The candidate of the source was rejected as a value: a negative number,
\* or a number that validate_tvl rejects.
ValueRejected(f, lastOpt) ==
    /\ f.invoked
    /\ \/ f.body = "num" /\ f.out = "none"
       \/ f.out = "value" /\ ~ValidateTvl(f.cand, lastOpt)

\* C15 (as claimed): a candidate of DexScreener that is rejected sends the
\* loop on to DeFiLlama, as a DexScreener that fails all its attempts does;
\* if DeFiLlama then yields a V that validate_tvl accepts, get_tvl returns
\* (V, DeFiLlama), consecutive_failures = 0 and last_successful_tvl = V.
C15_Original ==
    [][ /\ (FetchStep(Dex) /\ ValueRejected(fetched'[Dex], last_successful_tvl)
              => pc' = pc + 1 /\ UNCHANGED <<last_successful_tvl,
                                             consecutive_failures>>)
        /\ (/\ FetchStep(Llama)
            /\ \/ ValueRejected(fetched[Dex], last_successful_tvl)
               \/ Exhausted(fetched[Dex])
            /\ Candidate(fetched'[Llama])
            /\ ValidateTvl(fetched'[Llama].cand, last_successful_tvl)
            => SuccessRecorded(Llama, fetched'[Llama].cand)) ]_vars

\* C15 (amended): the same for a V > 0.
C15_RejectionFallsThrough ==
    [][ /\ (FetchStep(Dex) /\ ValueRejected(fetched'[Dex], last_successful_tvl)
              => pc' = pc + 1 /\ UNCHANGED <<last_successful_tvl,
                                             consecutive_failures>>)
        /\ (/\ FetchStep(Llama)
            /\ \/ ValueRejected(fetched[Dex], last_successful_tvl)
               \/ Exhausted(fetched[Dex])
            /\ Candidate(fetched'[Llama])
            /\ fetched'[Llama].cand > 0
            /\ ValidateTvl(fetched'[Llama].cand, last_successful_tvl)
            => SuccessRecorded(Llama, fetched'[Llama].cand)) ]_vars

C15_Witness ==
    /\ pc = 0
    /\ Candidate(fetched[Dex])
    /\ fetched[Dex].cand = 19000
    /\ result = Returned(1000, Llama)
    /\ last_successful_tvl = Some(1000)
    /\ consecutive_failures = 0
    /\ Count(source_success_count, Llama) = 2

\* HTTP GETs made in the call.
TotalAttempts == fetched[Dex].attempts + fetched[Llama].attempts

\* C16: every get_tvl call ends in an override return, a source return or a
\* fallback return, after at most (number of sources x max_retries) = 6
\* fetch attempts; DeFiLlama is fetched only after DexScreener.
C16_Original ==
    /\ TotalAttempts <= Len(Sources) * MaxRetries
    /\ fetched[Llama].invoked => fetched[Dex].invoked
    /\ pc = 0 /\ result.kind # "idle" =>
          /\ result.kind = "return"
          /\ result.source \in ReadingTags

\* C17: the health report is emitted in a cycle exactly when every source
\* failed or was rejected and consecutive_failures, once incremented, is at
\* least 5; a cycle that emits it still returns its fallback reading.
C17_HealthReport ==
    [][ /\ degraded' =
             (AllFailedStep /\ consecutive_failures' >= MaxConsecutiveFailures)
        /\ (degraded' =>
              /\ pc' = 0
              /\ result'.kind = "return"
              /\ result'.source \in {LastValueTag, DefaultTag}) ]_vars

C17_Witness ==
    /\ pc = 0
    /\ degraded
    /\ consecutive_failures = MaxConsecutiveFailures + 1
    /\ result.kind = "return"
    /\ result.source = LastValueTag

\* C18: last_successful_tvl is unset or greater than 0, so validate_tvl never
\* divides by zero.
C18_LastValuePositive ==
    IsSet(last_successful_tvl) => Val(last_successful_tvl) > 0

C18_Witness ==
    /\ pc = 0
    /\ Candidate(fetched[Dex])
    /\ fetched[Dex].cand = 0
    /\ Candidate(fetched[Llama])
    /\ fetched[Llama].cand = 0
    /\ ~IsSet(last_successful_tvl)
    /\ result = Returned(0, DefaultTag)

\* The fetch failed, or its candidate is more than 90% away from L.
FailedOrFar(f, L) ==
    /\ f.invoked
    /\ \/ f.out = "none"
       \/ f.out = "value" /\ Abs(f.cand - L) * 10 > 9 * L

\* C19: with last_successful_tvl = L, a cycle in which every source fails or
\* reports a candidate more than 90% away from L leaves L in place, returns
\* (L, LastSuccessfulValue) and adds 1 to consecutive_failures, however
\* often the same report was made before.
C19_BaselineLockIn ==
    [][ /\ IsSet(last_successful_tvl)
        /\ pc \in 1..Len(Sources)
        /\ \A n \in SourceNames :
              FailedOrFar(fetched'[n], Val(last_successful_tvl))
        => /\ last_successful_tvl' = last_successful_tvl
           /\ result' = Returned(Val(last_successful_tvl), "LastSuccessfulValue")
           /\ consecutive_failures' = consecutive_failures + 1
           /\ pc' = 0 ]_vars

C19_Witness ==
    /\ pc = 0
    /\ last_successful_tvl = Some(1000)
    /\ Candidate(fetched[Dex]) /\ fetched[Dex].cand = 19000
    /\ Candidate(fetched[Llama]) /\ fetched[Llama].cand = 19000
    /\ consecutive_failures = MaxFailures
    /\ result = Returned(1000, LastValueTag)

\* C20: a get_tvl call made while the override is set, and the setting and
\* clearing of the override, leave last_successful_tvl, consecutive_failures
\* and source_success_count unchanged; last_successful_tvl changes only in
\* steps in which no override is set.
C20_OverrideFrame ==
    [][ /\ (CallStep /\ IsSet(manual_tvl) =>
              UNCHANGED <<last_successful_tvl, consecutive_failures,
                          source_success_count>>)
        /\ (manual_tvl' # manual_tvl =>
              UNCHANGED <<last_successful_tvl, consecutive_failures,
                          source_success_count>>)
        /\ (last_successful_tvl' # last_successful_tvl =>
              ~IsSet(manual_tvl) /\ ~IsSet(manual_tvl')) ]_vars

C20_Witness ==
    /\ pc = 0
    /\ manual_tvl = Some(5000)
    /\ result = Returned(5000, OverrideTag)
    /\ last_successful_tvl = Some(1000)
    /\ consecutive_failures = 1
    /\ Count(source_success_count, Dex) = 1

\* The reading of the call that ends in this step, as a function of what
\* the sources did (fs) and of the fetcher state the call started from.
CycleReading(fs, lastOpt) ==
    IF \E n \in SourceNames : fs[n].out = "raise" THEN Raised
    ELSE IF Candidate(fs[Dex]) /\ fs[Dex].cand > 0
            /\ ValidateTvl(fs[Dex].cand, lastOpt)
         THEN Returned(fs[Dex].cand, Dex)
    ELSE IF Candidate(fs[Llama]) /\ fs[Llama].cand > 0
            /\ ValidateTvl(fs[Llama].cand, lastOpt)
         THEN Returned(fs[Llama].cand, Llama)
    ELSE IF IsSet(lastOpt) THEN Returned(Val(lastOpt), LastValueTag)
    ELSE Returned(0, DefaultTag)

\* C12: the get_tvl call that follows the clearing of the override (the
\* call before it returned the override, the override is now unset) enters
\* the loop with the fetcher state untouched and fetches DexScreener first;
\* its reading and its state updates are those that the source outcomes and
\* the fetcher state (last successful value, counters) determine.
C12_AutomaticAfterClear ==
    [][ prev.tag = OverrideTag /\ ~IsSet(manual_tvl) =>
          /\ (CallStep =>
                /\ pc' = 1
                /\ Sources[pc'] = Dex
                /\ fetched' = NoneFetched
                /\ UNCHANGED <<last_successful_tvl, consecutive_failures,
                               source_success_count>>)
          /\ (pc \in 1..Len(Sources) /\ pc' = 0 =>
                LET r == CycleReading(fetched', last_successful_tvl)
                IN  /\ result' = r
                    /\ last_successful_tvl' =
                         IF r.source \in SourceNames THEN Some(r.value)
                         ELSE last_successful_tvl
                    /\ consecutive_failures' =
                         IF r.source \in SourceNames THEN 0
                         ELSE IF r.kind = "raise" THEN consecutive_failures
                         ELSE consecutive_failures + 1
                    /\ \A n \in SourceNames :
                         Count(source_success_count', n) =
                           Count(source_success_count, n)
                             + (IF r.source = n THEN 1 ELSE 0)) ]_vars

\* The call after the clearing is in progress: DexScreener failed, with the
\* state left by the calls before the override.
C12_Witness ==
    /\ prev.tag = OverrideTag
    /\ ~IsSet(manual_tvl)
    /\ pc = 2
    /\ Exhausted(fetched[Dex])
    /\ last_successful_tvl = Some(1000)
    /\ consecutive_failures = 1

\* The call that ends in this step returned a tag.
ReturnStep == pc \in 1..Len(Sources) /\ pc' = 0 /\ result'.kind = "return"

\* C13 (as claimed): of two consecutive get_tvl calls with the override unset
\* in each of which DexScreener answers on the first attempt with a
\* non-negative number that validate_tvl does not reject, both return the
\* same source tag.
C13_Original ==
    [][ /\ ReturnStep
        /\ HealthyPrimary(fetched'[Dex], last_successful_tvl)
        /\ prev.healthy
        /\ prev.tag # "raise"
        => result'.source = prev.tag ]_vars

\* C13 (amended): the same where the first call returned DexScreener's
\* number, that is, where that number was greater than 0.
C13_SameTag ==
    [][ /\ ReturnStep
        /\ HealthyPrimary(fetched'[Dex], last_successful_tvl)
        /\ fetched'[Dex].cand > 0
        /\ prev.healthy
        /\ prev.tag = Dex
        => result'.source = prev.tag /\ result'.source = Dex ]_vars

C13_Witness ==
    /\ pc = 0
    /\ prev = [tag |-> Dex, healthy |-> TRUE]
    /\ result = Returned(1900, Dex)
    /\ fetched[Dex].attempts = 1
    /\ Count(source_success_count, Dex) = 2
    /\ ~fetched[Llama].invoked

\* C14: a get_tvl call made by calculate_fund_outflow that returns a reading
\* of zero makes the consumer report rate 0.0 with alert = False, without
\* reaching the ratio computation.
C14_ZeroReadingNoAlert ==
    [][ /\ pc' = 0
        /\ result'.kind = "return"
        /\ result'.value = 0
        => outflow' = [kind |-> "report", tvl |-> 0, rate |-> 0,
                       alert |-> FALSE, ratio |-> FALSE] ]_vars

C14_Witness ==
    /\ pc = 0
    /\ result = Returned(0, DefaultTag)
    /\ ~IsSet(last_successful_tvl)
    /\ Exhausted(fetched[Dex])
    /\ Exhausted(fetched[Llama])
    /\ outflow.kind = "report"
    /\ outflow.rate = 0
    /\ ~outflow.alert
    /\ ~outflow.ratio

============================================================================
